---- MODULE Spec2Model ----
(***************************************************************************)
(* Model of url_path (src/src/lib.rs): UrlPath::new, canonicalize, the     *)
(* accessors and normalize.  A Rust string is a sequence of one-character  *)
(* strings; Option<T> is a record [some, v].                               *)
(***************************************************************************)
EXTENDS Integers, Sequences, FiniteSets, TLC

VARIABLES s, cur, url, ret, fed

vars == <<s, cur, url, ret, fed>>

\* ------------------------------------------------------------------------
\* Bounds and the inputs drawn for UrlPath::new
\* ------------------------------------------------------------------------

\* largest number of `/`-separated raw segments of an input string
MaxSegs == 4

HttpPrefix == <<"h", "t", "t", "p", ":">>
HttpsPrefix == <<"h", "t", "t", "p", "s", ":">>

\* raw segments the inputs are built from: empty (doubled, leading and
\* trailing slashes), `.`, `..`, the two scheme prefixes and two names, one
\* of them a scheme without its colon
SegmentVocab ==
    { <<>>, <<".">>, <<".", ".">>, <<"a">>, <<"h", "t", "t", "p">>,
      HttpPrefix, HttpsPrefix }

\* [String]::join
RECURSIVE join(_, _)
join(v, sep) ==
    IF Len(v) = 0 THEN <<>>
    ELSE IF Len(v) = 1 THEN v[1]
    ELSE v[1] \o sep \o join(Tail(v), sep)

Inputs ==
    { join(segs, <<"/">>) :
        segs \in UNION { [1..n -> SegmentVocab] : n \in 1..MaxSegs } }

\* ------------------------------------------------------------------------
\* Rust library pieces used by the code
\* ------------------------------------------------------------------------

None == [some |-> FALSE, v |-> <<>>]
Some(x) == [some |-> TRUE, v |-> x]

\* str::starts_with
starts_with(str, prefix) ==
    /\ Len(str) >= Len(prefix)
    /\ SubSeq(str, 1, Len(prefix)) = prefix

RECURSIVE SplitAcc(_, _, _)
SplitAcc(str, seg, acc) ==
    IF str = <<>> THEN Append(acc, seg)
    ELSE IF Head(str) = "/" THEN SplitAcc(Tail(str), <<>>, Append(acc, seg))
    ELSE SplitAcc(Tail(str), Append(seg, Head(str)), acc)

\* str::split("/"): always at least one (possibly empty) element
split(str) == SplitAcc(str, <<>>, <<>>)

\* variant: removing the last element of an empty vector panics
VecPopUnwrap(v) ==
    IF Len(v) = 0 THEN [vec |-> v, val |-> [panic |-> TRUE]]
    ELSE [vec |-> SubSeq(v, 1, Len(v) - 1), val |-> Some(v[Len(v)])]

\* Vec::pop: the shortened vector and the removed element, None when empty
VecPop(v) ==
    IF Len(v) = 0 THEN [vec |-> v, val |-> None]
    ELSE [vec |-> SubSeq(v, 1, Len(v) - 1), val |-> Some(v[Len(v)])]

\* ------------------------------------------------------------------------
\* UrlPath
\* ------------------------------------------------------------------------

\* variant: the filter drops empty segments only
KeepSegmentNonEmpty(seg) == seg # <<>>

\* the filter closure of canonicalize
KeepSegment(seg) == ~(seg = <<>> \/ seg = <<".">>)

\* variant: a `..` met on an empty stack is kept as a segment
RECURSIVE InspectKeepDotDot(_, _)
InspectKeepDotDot(segments2, path) ==
    IF segments2 = <<>> THEN path
    ELSE IF Head(segments2) = <<".", ".">> /\ Len(path) > 0
         THEN InspectKeepDotDot(Tail(segments2), VecPop(path).vec)
         ELSE InspectKeepDotDot(Tail(segments2), Append(path, Head(segments2)))

\* the inspect closure of canonicalize, folded over the filtered segments
RECURSIVE Inspect(_, _)
Inspect(segments2, path) ==
    IF segments2 = <<>> THEN path
    ELSE IF Head(segments2) = <<".", ".">>
         THEN Inspect(Tail(segments2), VecPop(path).vec)
         ELSE Inspect(Tail(segments2), Append(path, Head(segments2)))

\* variant: the joined parent is wrapped without the emptiness test
ParentOptionAlways(parent_str) == Some(parent_str)

ParentOption(parent_str) ==
    IF parent_str = <<>> THEN None ELSE Some(parent_str)

\* variant: the file name is taken only when a directory remains
canonicalizeKeepSingle(p) ==
    LET segments  == split(p)
        segments2 == SelectSeq(segments, KeepSegment)
        path      == Inspect(segments2, <<>>)
        popped    == IF Len(path) > 1 THEN VecPop(path)
                     ELSE [vec |-> path, val |-> None]
        filename  == popped.val
        parentStr == join(popped.vec, <<"/">>)
    IN  [parent |-> ParentOption(parentStr), last |-> filename]

canonicalize(p) ==
    LET segments  == split(p)
        segments2 == SelectSeq(segments, KeepSegment)
        path      == Inspect(segments2, <<>>)
        popped    == VecPop(path)
        filename  == popped.val
        parentStr == join(popped.vec, <<"/">>)
    IN  [parent |-> ParentOption(parentStr), last |-> filename]

\* variant: only the secure scheme is recognised
IsExternalPrefixHttpsOnly(p) == starts_with(p, HttpsPrefix)

IsExternalPrefix(p) ==
    starts_with(p, HttpPrefix) \/ starts_with(p, HttpsPrefix)

\* variant: absolute when the first raw segment is empty
IsAbsoluteFirstSegment(p) == split(p)[1] = <<>>

IsAbsolutePath(p) == starts_with(p, <<"/">>)

new(p) ==
    LET c == canonicalize(p)
        isAbsolute == IsAbsolutePath(p)
    IN  IF IsExternalPrefix(p)
        THEN [kind |-> "External", ext |-> p]
        ELSE [kind |-> "Path", parent |-> c.parent, last |-> c.last,
              is_absolute |-> isAbsolute]

is_absolute(self) ==
    IF self.kind = "Path" THEN self.is_absolute ELSE FALSE

is_external(self) == self.kind = "External"

last(self) == IF self.kind = "Path" THEN self.last ELSE None

parent(self) == IF self.kind = "Path" THEN self.parent ELSE None

\* which arm of the nested `if let` of normalize builds full_path
FullPathBranch(par, lst) ==
    IF par.some
    THEN IF lst.some THEN "parent_and_last" ELSE "parent_only"
    ELSE IF lst.some
         THEN IF par.some THEN "last_then_parent" ELSE "last_only"
         ELSE "neither"

\* variant: the two format arguments are exchanged
FullPathSwapped(par, lst) ==
    IF par.some
    THEN IF lst.some THEN lst.v \o <<"/">> \o par.v ELSE par.v
    ELSE IF lst.some
         THEN IF par.some THEN lst.v \o <<"/">> \o par.v ELSE lst.v
         ELSE <<>>

FullPath(par, lst) ==
    IF par.some
    THEN IF lst.some THEN par.v \o <<"/">> \o lst.v ELSE par.v
    ELSE IF lst.some
         THEN IF par.some THEN par.v \o <<"/">> \o lst.v ELSE lst.v
         ELSE <<>>

\* variant: the root is prepended only to a non-empty body
PrependRootNonEmpty(abs, full_path) ==
    IF abs /\ full_path # <<>> THEN <<"/">> \o full_path ELSE full_path

PrependRoot(abs, full_path) ==
    IF abs THEN <<"/">> \o full_path ELSE full_path

normalize(self) ==
    IF self.kind = "Path"
    THEN PrependRoot(self.is_absolute, FullPath(self.parent, self.last))
    ELSE self.ext

\* ------------------------------------------------------------------------
\* State machine: a caller builds a UrlPath from an input, calls the
\* accessors and normalize, and may build a second UrlPath from the
\* normalized output.
\* ------------------------------------------------------------------------

NoUrl == [kind |-> "None"]
NoRet == [op |-> "none", val |-> None]

Init ==
    /\ s \in Inputs
    /\ cur = s
    /\ url = NoUrl
    /\ ret = NoRet
    /\ fed = FALSE

New ==
    /\ url = NoUrl
    /\ url' = new(cur)
    /\ UNCHANGED <<s, cur, ret, fed>>

IsAbsolute ==
    /\ url # NoUrl
    /\ ret' = [op |-> "is_absolute", val |-> is_absolute(url)]
    /\ UNCHANGED <<s, cur, url, fed>>

IsExternal ==
    /\ url # NoUrl
    /\ ret' = [op |-> "is_external", val |-> is_external(url)]
    /\ UNCHANGED <<s, cur, url, fed>>

Last ==
    /\ url # NoUrl
    /\ ret' = [op |-> "last", val |-> last(url)]
    /\ UNCHANGED <<s, cur, url, fed>>

Parent ==
    /\ url # NoUrl
    /\ ret' = [op |-> "parent", val |-> parent(url)]
    /\ UNCHANGED <<s, cur, url, fed>>

Normalize ==
    /\ url # NoUrl
    /\ ret' = [op |-> "normalize", val |-> normalize(url)]
    /\ UNCHANGED <<s, cur, url, fed>>

\* UrlPath::new applied to the string normalize just returned
NewFromNormalized ==
    /\ ~fed
    /\ ret.op = "normalize"
    /\ cur' = ret.val
    /\ url' = new(ret.val)
    /\ ret' = NoRet
    /\ fed' = TRUE
    /\ UNCHANGED s

Next ==
    \/ New
    \/ IsAbsolute
    \/ IsExternal
    \/ Last
    \/ Parent
    \/ Normalize
    \/ NewFromNormalized

Spec == Init /\ [][Next]_vars

\* ------------------------------------------------------------------------
\* Vocabulary of the properties, defined without the operators above
\* ------------------------------------------------------------------------

Chars == {"/", ".", "a", "h", "t", "p", "s", ":"}

IsString(x) == x \in Seq(Chars)

IsOptionString(o) ==
    /\ DOMAIN o = {"some", "v"}
    /\ o.some \in BOOLEAN
    /\ IsString(o.v)
    /\ (~o.some => o.v = <<>>)

\* the string begins with `http:` or `https:`
HasScheme(str) ==
    \/ Len(str) >= 5 /\ [i \in 1..5 |-> str[i]] = HttpPrefix
    \/ Len(str) >= 6 /\ [i \in 1..6 |-> str[i]] = HttpsPrefix

BeginsWithSlash(str) == Len(str) > 0 /\ str[1] = "/"

\* the segments of str when split on `/`: what precedes the last `/`,
\* split, then what follows it
RECURSIVE RawSegments(_)
RawSegments(str) ==
    LET slashes == {i \in 1..Len(str) : str[i] = "/"}
    IN  IF slashes = {} THEN <<str>>
        ELSE LET i == CHOOSE j \in slashes : \A k \in slashes : k <= j
             IN  Append(RawSegments(SubSeq(str, 1, i - 1)),
                        SubSeq(str, i + 1, Len(str)))

IsName(seg) == seg # <<>> /\ seg # <<".">> /\ seg # <<".", ".">>

\* The segments that survive resolution, found from the right: a `..`
\* cancels the nearest name to its left that no other `..` has cancelled,
\* and a `..` with no such name is dropped.  This is the set of segments a
\* left-to-right stack walk leaves on its stack.
RECURSIVE Survivors(_, _)
Survivors(segs, skip) ==
    IF Len(segs) = 0 THEN <<>>
    ELSE LET x == segs[Len(segs)]
             rest == SubSeq(segs, 1, Len(segs) - 1)
         IN  IF x = <<>> \/ x = <<".">> THEN Survivors(rest, skip)
             ELSE IF x = <<".", ".">> THEN Survivors(rest, skip + 1)
             ELSE IF skip > 0 THEN Survivors(rest, skip - 1)
             ELSE Append(Survivors(rest, 0), x)

Resolved(str) == Survivors(RawSegments(str), 0)

Front(v) == SubSeq(v, 1, Len(v) - 1)

\* the segment list a Path value stands for
UrlSegments(u) ==
    (IF u.parent.some THEN RawSegments(u.parent.v) ELSE <<>>)
        \o (IF u.last.some THEN <<u.last.v>> ELSE <<>>)

IsPath == url.kind = "Path"

\* str is "", "/" or names joined by single slashes after an optional root
ResolvedForm(str) ==
    LET body == IF BeginsWithSlash(str) THEN Tail(str) ELSE str
    IN  \/ body = <<>>
        \/ \A k \in 1..Len(RawSegments(body)) : IsName(RawSegments(body)[k])

\* ------------------------------------------------------------------------
\* Properties
\* ------------------------------------------------------------------------

\* C1: idempotence of normalization.  For an input s without a scheme
\* prefix, building a UrlPath from the normalized output of s and
\* normalizing it again returns that output unchanged, also when the output
\* itself begins with a scheme prefix or is "" or "/".
C1_Idempotent ==
    (~HasScheme(s) /\ fed /\ ret.op = "normalize") => ret.val = cur

C1_Witness ==
    /\ s = <<".", "/", "h", "t", "t", "p", ":", "/", "a">>
    /\ fed
    /\ cur = <<"h", "t", "t", "p", ":", "/", "a">>
    /\ ret.op = "normalize"
    /\ ret.val = cur

\* C2: external passthrough.  For a string beginning with `http:` or
\* `https:` the value is External, normalize returns the string exactly,
\* is_external is true and is_absolute is false.
C2_ExternalPassthrough ==
    (HasScheme(cur) /\ url # NoUrl) =>
        /\ url.kind = "External"
        /\ ret.op = "normalize" => ret.val = cur
        /\ ret.op = "is_external" => ret.val = TRUE
        /\ ret.op = "is_absolute" => ret.val = FALSE

C2_Witness ==
    /\ cur = <<"h", "t", "t", "p", "s", ":", "/", "/", ".", ".", "/", ".">>
    /\ ret.op = "normalize"
    /\ ret.val = cur

\* C3: dot-dot resolution.  For an input without a scheme prefix the
\* segments held by the value (parent split on `/`, then last) are the
\* segments left by the stack walk: empty and `.` segments dropped, each
\* `..` removing the most recent surviving name or nothing when there is
\* none, no `..` kept; last() is the top of that stack and parent() the
\* `/`-join of the rest.
C3_DotDotResolution ==
    (~HasScheme(cur) /\ url # NoUrl) =>
        LET r == Resolved(cur)
        IN  /\ IsPath
            /\ UrlSegments(url) = r
            /\ \A k \in 1..Len(UrlSegments(url)) : IsName(UrlSegments(url)[k])
            /\ ret.op = "last" =>
                 ret.val = IF Len(r) = 0 THEN None ELSE Some(r[Len(r)])
            /\ (ret.op = "parent" /\ Len(r) >= 2) =>
                 ret.val = Some(join(Front(r), <<"/">>))

C3_Witness ==
    /\ IsPath
    /\ cur = <<".", ".", "/", "h", "t", "t", "p", "/", "a", "/", ".", ".">>
    /\ ret.op = "last"
    /\ ret.val = Some(<<"h", "t", "t", "p">>)
    /\ url.parent = None

\* C4: totality.  For every input string the constructor yields a
\* well-formed value, every accessor and normalize can be called on it and
\* returns a value of its type; an input that resolves to nothing has no
\* last segment.
WellFormedUrl(u) ==
    \/ /\ DOMAIN u = {"kind", "ext"}
       /\ u.kind = "External"
       /\ IsString(u.ext)
    \/ /\ DOMAIN u = {"kind", "parent", "last", "is_absolute"}
       /\ u.kind = "Path"
       /\ IsOptionString(u.parent)
       /\ IsOptionString(u.last)
       /\ u.is_absolute \in BOOLEAN

WellTypedRet ==
    /\ ret.op \in {"is_absolute", "is_external"} => ret.val \in BOOLEAN
    /\ ret.op \in {"last", "parent"} => IsOptionString(ret.val)
    /\ ret.op = "normalize" => IsString(ret.val)

C4_Total ==
    url # NoUrl =>
        /\ WellFormedUrl(url)
        /\ WellTypedRet
        /\ ENABLED IsAbsolute
        /\ ENABLED IsExternal
        /\ ENABLED Last
        /\ ENABLED Parent
        /\ ENABLED Normalize
        /\ (~HasScheme(cur) /\ Len(Resolved(cur)) = 0) => url.last = None

C4_Witness ==
    /\ IsPath
    /\ cur = <<"/", "a", "/", ".", ".", "/", ".", ".">>
    /\ url.last = None
    /\ ret.op = "normalize"
    /\ ret.val = <<"/">>

\* C5: no empty parent.  For an input without a scheme prefix parent() is
\* None exactly when fewer than two segments survive resolution, and it is
\* never Some("").
C5_NoEmptyParent ==
    (~HasScheme(cur) /\ ret.op = "parent") =>
        /\ (ret.val = None) <=> (Len(Resolved(cur)) < 2)
        /\ ret.val # Some(<<>>)

C5_Witness ==
    /\ IsPath
    /\ cur = <<"a", "/", ".", ".", "/", "h", "t", "t", "p">>
    /\ ret.op = "parent"
    /\ ret.val = None
    /\ url.last = Some(<<"h", "t", "t", "p">>)

\* C6: absolute flag preservation.  For an input without a scheme prefix
\* is_absolute() is true exactly when the input begins with `/`, whatever
\* resolution removes.
C6_AbsoluteFlag ==
    (~HasScheme(cur) /\ ret.op = "is_absolute") =>
        (ret.val <=> BeginsWithSlash(cur))

C6_Witness ==
    /\ IsPath
    /\ cur = <<"/", "a", "/", ".", ".">>
    /\ url.last = None
    /\ ret.op = "is_absolute"
    /\ ret.val = TRUE

\* C7: documented meaning of `last`.  For an input without a scheme prefix
\* last() is the last element of the input split on `/`, also for inputs
\* ending in `/`, `.` or `..`.
C7_LastIsLastRawSegment ==
    (~HasScheme(cur) /\ ret.op = "last") =>
        LET raw == RawSegments(cur)
        IN  \/ ret.val = Some(raw[Len(raw)])
            \/ ret.val = None /\ raw[Len(raw)] = <<>>

\* C8: rendering composition.  For an input without a scheme prefix
\* normalize() is P ++ B, P being "/" for an input beginning with `/` and
\* "" otherwise, B being parent/last, last alone, or "".  An input that
\* resolves to nothing renders as "" or "/", and an input already in
\* resolved form is returned unchanged.
C8_Body ==
    IF url.parent.some /\ url.last.some
    THEN url.parent.v \o <<"/">> \o url.last.v
    ELSE IF url.last.some THEN url.last.v
    ELSE <<>>

C8_Rendering ==
    (~HasScheme(cur) /\ ret.op = "normalize") =>
        /\ ret.val = (IF BeginsWithSlash(cur) THEN <<"/">> ELSE <<>>) \o C8_Body
        /\ Len(Resolved(cur)) = 0 =>
             ret.val = IF BeginsWithSlash(cur) THEN <<"/">> ELSE <<>>
        /\ ResolvedForm(cur) => ret.val = cur

C8_Witness ==
    /\ IsPath
    /\ cur = <<"/", "a", "/", "h", "t", "t", "p", "/", "a">>
    /\ ~fed
    /\ url.parent = Some(<<"a", "/", "h", "t", "t", "p">>)
    /\ ret.op = "normalize"
    /\ ret.val = cur

C10_OutputShape ==
    (~HasScheme(cur) /\ ret.op = "normalize") =>
        LET out == ret.val
            body == IF BeginsWithSlash(out) THEN Tail(out) ELSE out
        IN  /\ BeginsWithSlash(out) <=> BeginsWithSlash(cur)
            /\ ~(Len(out) >= 2 /\ out[1] = "/" /\ out[2] = "/")
            /\ (Len(out) > 0 /\ out[Len(out)] = "/") => out = <<"/">>
            /\ \/ body = <<>>
               \/ \A k \in 1..Len(RawSegments(body)) :
                      IsName(RawSegments(body)[k])

C10_Witness ==
    /\ cur = <<"/", ".", "/", "a", "/">>
    /\ ret.op = "normalize"
    /\ ret.val = <<"/", "a">>

====
